---- MODULE Spec2Model ----
(***************************************************************************)
(* Model of cheerio's optimizations module (src/unnamed/part_001): the     *)
(* owner-keyed selector, traversal, attribute and text caches, the         *)
(* fast-path selector classifier and tree searches, and the wrapper object *)
(* pool.                                                                   *)
(*                                                                         *)
(* JavaScript values are modelled as follows.  A string is the sequence of *)
(* its characters (one-character TLA+ strings).  A value that may be       *)
(* `undefined` is tagged: Undefined, or Str(s) for the string s.  A        *)
(* WeakMap or Map is a function whose DOMAIN is the set of keys present.   *)
(* The document tree is externally owned (domhandler): `tree` maps each    *)
(* node identity to its record and `root` is the top-level node sequence.  *)
(***************************************************************************)
EXTENDS Integers, Sequences, FiniteSets, TLC

VARIABLES
    tree,            \* node identity -> [type, name, attribs, children]
    root,            \* the document's top-level node sequence
    attributeCache,  \* WeakMap<Element, Map<string, string | undefined>>
    textCache,       \* WeakMap<AnyNode, TextCacheEntry>
    pool,            \* WrapperPool.pool
    maxSize,         \* WrapperPool.maxSize
    last,            \* the call that ran last: its name, arguments and result
    invalidated,     \* history: <<elem, name>> cached when elem was invalidated, not set since
    textSnap,        \* history: per node, the text and children of its last setCachedText,
                     \* whether they were left intact, whether a later read missed
    selectorCache,   \* WeakMap<object, Map<string, Element[]>>
    traversalCache   \* WeakMap<AnyNode, { parent?, nextSibling?, prevSibling?, children? }>

vars == <<tree, root, attributeCache, textCache, pool, maxSize, last, invalidated, textSnap,
          selectorCache, traversalCache>>

----------------------------------------------------------------------------
(* Bounds of the model *)

\* Nodes the environment may create in the tree-search slices.
MaxNodes == 3
\* Detached child nodes available to the text-cache slices.
MaxChildren == 3
\* Elements owning attribute-cache entries in the attribute slice.
NumElems == 2
\* Largest maxSize a pool is constructed with.
MaxPoolSize == 2
\* Longest selector string handed to parseSimpleSelector.
MaxSelLen == 3
\* Nodes available as children past the fingerprint's scan limit.
MaxTail == 2

----------------------------------------------------------------------------
(* JavaScript values *)

Undefined == [t |-> "undefined"]
Str(s) == [t |-> "string", s |-> s]
Obj(i) == [t |-> "object", id |-> i]
Num(n) == [t |-> "number", n |-> n]

\* ToBoolean, as `||` applies it: undefined, 0 and "" are falsy, objects truthy.
ToBoolean(v) ==
    CASE v.t = "undefined" -> FALSE
      [] v.t = "number" -> v.n # 0
      [] v.t = "string" -> v.s # <<>>
      [] OTHER -> TRUE

EmptyMap == [k \in {} |-> Undefined]

\* Map.prototype.set / WeakMap.prototype.set
MapSet(m, k, v) == [x \in DOMAIN m \cup {k} |-> IF x = k THEN v ELSE m[x]]
\* WeakMap.prototype.delete
MapDelete(m, k) == [x \in DOMAIN m \ {k} |-> m[x]]
\* Map.prototype.get / WeakMap.prototype.get: undefined for a missing key
MapGet(m, k) == IF k \in DOMAIN m THEN m[k] ELSE Undefined

Range(s) == {s[i] : i \in DOMAIN s}

----------------------------------------------------------------------------
(* The document tree (domhandler nodes) *)

Tag(nm, at) == [type |-> "tag", name |-> Str(nm), attribs |-> at, children |-> <<>>]
StyleTag(nm, at) == [type |-> "style", name |-> Str(nm), attribs |-> at, children |-> <<>>]
\* A text node has neither name nor children; its absent children are <<>> here,
\* which every reader below treats as it treats `undefined`.
TextNode == [type |-> "text", name |-> Undefined, attribs |-> EmptyMap, children |-> <<>>]
\* A CDATA section: a node with children that is not tag-type.
CDataNode == [type |-> "cdata", name |-> Undefined, attribs |-> EmptyMap, children |-> <<>>]

\* domhandler's isTag: ElementType.Tag, Script or Style.
isTag(node) == node.type \in {"tag", "script", "style"}

NoAttribs == EmptyMap
Attr(k, v) == [x \in {k} |-> v]

S_div == <<"d", "i", "v">>
S_dl == <<"d", "l">>
S_span == <<"s", "p", "a", "n">>

EmptyTree == [n \in {} |-> TextNode]

\* Document of the given node records, all at top level, numbered 1..Len(kinds).
Population(kinds) == [n \in 1..Len(kinds) |-> kinds[n]]

\* document.createElement + append: a new node as last child of p (0: top level).
CreateNode(p, kind) ==
    LET n == Cardinality(DOMAIN tree) + 1 IN
    /\ Cardinality(DOMAIN tree) < MaxNodes
    /\ p = 0 \/ (p \in DOMAIN tree /\ tree[p].type # "text")
    /\ tree' = [x \in DOMAIN tree \cup {n} |->
                  IF x = n THEN kind
                  ELSE IF x = p THEN [tree[x] EXCEPT !.children = Append(@, n)]
                  ELSE tree[x]]
    /\ root' = IF p = 0 THEN Append(root, n) ELSE root
    /\ textSnap' = IF p \in DOMAIN textSnap
                   THEN [textSnap EXCEPT ![p].intact = FALSE] ELSE textSnap
    /\ last' = [op |-> "createNode", node |-> n]
    /\ UNCHANGED <<attributeCache, textCache, pool, maxSize, invalidated, selectorCache, traversalCache>>

Attached(n) == n \in Range(root) \/ \E q \in DOMAIN tree : n \in Range(tree[q].children)

\* appendChild: the detached node c becomes the last child of p.
AppendChild(p, c) ==
    /\ p \in DOMAIN tree /\ c \in DOMAIN tree /\ p # c
    /\ tree[p].type # "text"
    /\ ~Attached(c)
    /\ tree[c].children = <<>>
    /\ tree' = [tree EXCEPT ![p].children = Append(@, c)]
    /\ textSnap' = IF p \in DOMAIN textSnap
                   THEN [textSnap EXCEPT ![p].intact = FALSE] ELSE textSnap
    /\ last' = [op |-> "appendChild", node |-> p, child |-> c]
    /\ UNCHANGED <<root, attributeCache, textCache, pool, maxSize, invalidated, selectorCache, traversalCache>>

RemoveAt(s, i) == SubSeq(s, 1, i - 1) \o SubSeq(s, i + 1, Len(s))

\* removeChild: the i-th child of p is detached.
RemoveChild(p, i) ==
    /\ p \in DOMAIN tree
    /\ i \in 1..Len(tree[p].children)
    /\ tree' = [tree EXCEPT ![p].children = RemoveAt(@, i)]
    /\ textSnap' = IF p \in DOMAIN textSnap
                   THEN [textSnap EXCEPT ![p].intact = FALSE] ELSE textSnap
    /\ last' = [op |-> "removeChild", node |-> p, index |-> i]
    /\ UNCHANGED <<root, attributeCache, textCache, pool, maxSize, invalidated, selectorCache, traversalCache>>

\* replaceChild: the detached node c takes the place of the i-th child of p.
ReplaceChild(p, i, c) ==
    /\ p \in DOMAIN tree /\ c \in DOMAIN tree /\ p # c
    /\ i \in 1..Len(tree[p].children)
    /\ ~Attached(c)
    /\ tree[c].children = <<>>
    /\ tree' = [tree EXCEPT ![p].children = [@ EXCEPT ![i] = c]]
    /\ textSnap' = IF p \in DOMAIN textSnap
                   THEN [textSnap EXCEPT ![p].intact = FALSE] ELSE textSnap
    /\ last' = [op |-> "replaceChild", node |-> p, index |-> i, child |-> c]
    /\ UNCHANGED <<root, attributeCache, textCache, pool, maxSize, invalidated, selectorCache, traversalCache>>

----------------------------------------------------------------------------
(* Attribute cache *)

AttrNames == {"id", "class"}
AttrValues == {Undefined, Str(<<>>), Str(<<"x">>)}

\* attributeCache.get(elem)?.get(name)
getCachedAttribute(ac, elem, name) ==
    IF elem \notin DOMAIN ac THEN Undefined ELSE MapGet(ac[elem], name)

\* attributeCache.get(elem)?.has(name) ?? false
hasAttributeCache(ac, elem, name) ==
    IF elem \notin DOMAIN ac THEN FALSE ELSE name \in DOMAIN ac[elem]

\* A plausible slip: `if (value !== undefined) cache.set(name, value)`.
setCachedAttributeSkipUndefined(ac, elem, name, value) ==
    LET cache == IF elem \in DOMAIN ac THEN ac[elem] ELSE EmptyMap IN
    MapSet(ac, elem, IF value = Undefined THEN cache ELSE MapSet(cache, name, value))

setCachedAttribute(ac, elem, name, value) ==
    LET cache == IF elem \in DOMAIN ac THEN ac[elem] ELSE EmptyMap IN
    MapSet(ac, elem, MapSet(cache, name, value))

\* A plausible slip: an empty body, as clearSelectorCache has.
invalidateAttributeCacheNoop(ac, elem) == ac

invalidateAttributeCache(ac, elem) == MapDelete(ac, elem)

Elements == {n \in DOMAIN tree : isTag(tree[n])}

GetCachedAttribute(e, a) ==
    /\ last' = [op |-> "getCachedAttribute", node |-> e, key |-> a,
                ret |-> getCachedAttribute(attributeCache, e, a)]
    /\ UNCHANGED <<tree, root, attributeCache, textCache, pool, maxSize, invalidated, textSnap, selectorCache, traversalCache>>

HasAttributeCache(e, a) ==
    /\ last' = [op |-> "hasAttributeCache", node |-> e, key |-> a,
                ret |-> hasAttributeCache(attributeCache, e, a)]
    /\ UNCHANGED <<tree, root, attributeCache, textCache, pool, maxSize, invalidated, textSnap, selectorCache, traversalCache>>

SetCachedAttribute(e, a, v) ==
    /\ attributeCache' = setCachedAttribute(attributeCache, e, a, v)
    /\ invalidated' = invalidated \ {<<e, a>>}
    /\ last' = [op |-> "setCachedAttribute", node |-> e, key |-> a, arg |-> v]
    /\ UNCHANGED <<tree, root, textCache, pool, maxSize, textSnap, selectorCache, traversalCache>>

InvalidateAttributeCache(e) ==
    /\ attributeCache' = invalidateAttributeCache(attributeCache, e)
    /\ invalidated' = invalidated \cup
           {<<e, a>> : a \in {b \in AttrNames : hasAttributeCache(attributeCache, e, b)}}
    /\ last' = [op |-> "invalidateAttributeCache", node |-> e]
    /\ UNCHANGED <<tree, root, textCache, pool, maxSize, textSnap, selectorCache, traversalCache>>

NextAttr ==
    \/ \E e \in Elements, a \in AttrNames : GetCachedAttribute(e, a)
    \/ \E e \in Elements, a \in AttrNames : HasAttributeCache(e, a)
    \/ \E e \in Elements, a \in AttrNames, v \in AttrValues : SetCachedAttribute(e, a, v)
    \/ \E e \in Elements : InvalidateAttributeCache(e)

----------------------------------------------------------------------------
(* Wrapper object pool *)

\* Instances a caller may release: T is unconstrained, so falsy values too.
PoolValues == {Obj(1), Obj(2), Num(0), Str(<<>>)}
\* What the factory constructs.
FactoryResult == Obj(0)

\* Array.prototype.pop: undefined on an empty array.
ArrayPop(p) ==
    IF Len(p) = 0 THEN [pool |-> p, ret |-> Undefined]
    ELSE [pool |-> SubSeq(p, 1, Len(p) - 1), ret |-> p[Len(p)]]

\* acquire(): return this.pool.pop() || this.factory()
acquire(p) ==
    LET popped == ArrayPop(p) IN
    IF ToBoolean(popped.ret)
    THEN [pool |-> popped.pool, ret |-> popped.ret, factory |-> FALSE]
    ELSE [pool |-> popped.pool, ret |-> FactoryResult, factory |-> TRUE]

\* A plausible slip: `<=` for `<` in the capacity test.
releaseOffByOne(p, m, obj) == IF Len(p) <= m THEN Append(p, obj) ELSE p

release(p, m, obj) == IF Len(p) < m THEN Append(p, obj) ELSE p

clear(p) == <<>>

Acquire ==
    /\ pool' = acquire(pool).pool
    /\ last' = [op |-> "acquire", before |-> pool,
                ret |-> acquire(pool).ret, factory |-> acquire(pool).factory]
    /\ UNCHANGED <<tree, root, attributeCache, textCache, maxSize, invalidated, textSnap, selectorCache, traversalCache>>

Release(obj) ==
    /\ pool' = release(pool, maxSize, obj)
    /\ last' = [op |-> "release", before |-> pool, arg |-> obj]
    /\ UNCHANGED <<tree, root, attributeCache, textCache, maxSize, invalidated, textSnap, selectorCache, traversalCache>>

Clear ==
    /\ pool' = clear(pool)
    /\ last' = [op |-> "clear"]
    /\ UNCHANGED <<tree, root, attributeCache, textCache, maxSize, invalidated, textSnap, selectorCache, traversalCache>>

NextPool ==
    \/ Acquire
    \/ \E obj \in PoolValues \cup {FactoryResult} : Release(obj)
    \/ Clear

----------------------------------------------------------------------------
(* Fast-path selector classifier *)

\* Characters selector strings are drawn from: word characters, the hyphen, the
\* two sigils, a combinator and white space.
SelectorChars == {"#", ".", "d", "-", "_", "7", ">", " ", "\t"}

SelectorStrings == UNION {[1..n -> SelectorChars] : n \in 0..MaxSelLen}

\* White space as String.prototype.trim and the regular expression \s see it.
IsWhiteSpace(c) == c \in {" ", "\t", "\n", "\r"}

\* The regular expression class \w: [A-Za-z0-9_].
WordChars ==
    {"a", "b", "c", "d", "e", "f", "g", "h", "i", "j", "k", "l", "m",
     "n", "o", "p", "q", "r", "s", "t", "u", "v", "w", "x", "y", "z",
     "A", "B", "C", "D", "E", "F", "G", "H", "I", "J", "K", "L", "M",
     "N", "O", "P", "Q", "R", "S", "T", "U", "V", "W", "X", "Y", "Z",
     "0", "1", "2", "3", "4", "5", "6", "7", "8", "9", "_"}

\* The class [\w-].
IsWordOrHyphen(c) == c \in WordChars \cup {"-"}

RECURSIVE trimStart(_)
trimStart(s) == IF s # <<>> /\ IsWhiteSpace(Head(s)) THEN trimStart(Tail(s)) ELSE s

RECURSIVE trimEnd(_)
trimEnd(s) ==
    IF s # <<>> /\ IsWhiteSpace(s[Len(s)]) THEN trimEnd(SubSeq(s, 1, Len(s) - 1)) ELSE s

\* String.prototype.trim
trim(s) == trimEnd(trimStart(s))

\* String.prototype.slice(from), from a 0-based index within the string.
slice(s, from) == SubSeq(s, from + 1, Len(s))

\* [\w-]+$ matched from the 1-based position `from`: one or more, to the end.
MatchWordHyphenPlusToEnd(s, from) ==
    /\ from <= Len(s)
    /\ \A i \in from..Len(s) : IsWordOrHyphen(s[i])

\* /^#[\w-]+$/.test(s)
TestIdSelector(s) == s # <<>> /\ s[1] = "#" /\ MatchWordHyphenPlusToEnd(s, 2)
\* /^\.[\w-]+$/.test(s)
TestClassSelector(s) == s # <<>> /\ s[1] = "." /\ MatchWordHyphenPlusToEnd(s, 2)
\* /^[\w-]+$/.test(s)
TestTagSelector(s) == MatchWordHyphenPlusToEnd(s, 1)

\* The three tests of parseSimpleSelector, in its order, on the trimmed string.
classifyTrimmed(trimmed) ==
    IF TestIdSelector(trimmed) THEN [type |-> "id", value |-> slice(trimmed, 1)]
    ELSE IF TestClassSelector(trimmed) THEN [type |-> "class", value |-> slice(trimmed, 1)]
    ELSE IF TestTagSelector(trimmed) THEN [type |-> "tag", value |-> trimmed]
    ELSE [type |-> "complex"]

\* A plausible slip: the tests run on the selector as given, not trimmed.
parseSimpleSelectorUntrimmed(selector) == classifyTrimmed(selector)

parseSimpleSelector(selector) == classifyTrimmed(trim(selector))

ParseSimpleSelector(s) ==
    /\ last' = [op |-> "parseSimpleSelector", arg |-> s, ret |-> parseSimpleSelector(s)]
    /\ UNCHANGED <<tree, root, attributeCache, textCache, pool, maxSize, invalidated, textSnap, selectorCache, traversalCache>>

NextSelector == \E s \in SelectorStrings : ParseSimpleSelector(s)

----------------------------------------------------------------------------
(* Fast-path tree searches *)

\* node.attribs?.[name]: the attribute's string, or undefined.
\* A plausible slip: an absent attribute reads as the empty string (?? '').
AttribGetDefaultEmpty(node, name) ==
    IF name \in DOMAIN node.attribs THEN Str(node.attribs[name]) ELSE Str(<<>>)

AttribGet(node, name) ==
    IF name \in DOMAIN node.attribs THEN Str(node.attribs[name]) ELSE Undefined

\* search() of fastFindById over nodes[i..]: st.found is its return value.
RECURSIVE searchById(_, _, _, _, _)
searchById(t, nodes, i, st, id) ==
    IF i > Len(nodes) THEN [st EXCEPT !.found = FALSE]
    ELSE LET node == nodes[i] IN
         IF isTag(t[node])
         THEN IF AttribGet(t[node], "id") = Str(id) /\ node \notin st.seen
              THEN [results |-> Append(st.results, node),
                    seen |-> st.seen \cup {node},
                    found |-> TRUE]
              ELSE LET sub == searchById(t, t[node].children, 1, st, id) IN
                   IF sub.found THEN sub ELSE searchById(t, nodes, i + 1, sub, id)
         ELSE searchById(t, nodes, i + 1, st, id)

\* A plausible slip: the walk goes on after a match (no `return true`).
RECURSIVE searchByIdNoReturn(_, _, _, _, _)
searchByIdNoReturn(t, nodes, i, st, id) ==
    IF i > Len(nodes) THEN st
    ELSE LET node == nodes[i] IN
         IF isTag(t[node])
         THEN LET st1 == IF AttribGet(t[node], "id") = Str(id) /\ node \notin st.seen
                         THEN [results |-> Append(st.results, node),
                               seen |-> st.seen \cup {node},
                               found |-> FALSE]
                         ELSE st
                  sub == searchByIdNoReturn(t, t[node].children, 1, st1, id)
              IN searchByIdNoReturn(t, nodes, i + 1, sub, id)
         ELSE searchByIdNoReturn(t, nodes, i + 1, st, id)

fastFindByIdNoReturn(t, rt, id) ==
    searchByIdNoReturn(t, rt, 1, [results |-> <<>>, seen |-> {}, found |-> FALSE], id).results

fastFindById(t, rt, id) ==
    searchById(t, rt, 1, [results |-> <<>>, seen |-> {}, found |-> FALSE], id).results

\* s.split(re): the pieces of s between the separators; `run` tells whether a
\* separator is a whole run of white space (/\s+/) or one character (/\s/).
RECURSIVE splitFrom(_, _, _, _, _)
splitFrom(s, i, piece, acc, run) ==
    IF i > Len(s) THEN Append(acc, piece)
    ELSE IF IsWhiteSpace(s[i])
         THEN IF run /\ i < Len(s) /\ IsWhiteSpace(s[i + 1])
              THEN splitFrom(s, i + 1, piece, acc, run)
              ELSE splitFrom(s, i + 1, <<>>, Append(acc, piece), run)
         ELSE splitFrom(s, i + 1, Append(piece, s[i]), acc, run)

\* A plausible slip: /\s/ for /\s+/.
splitOnEachWhiteSpace(s) == splitFrom(s, 1, <<>>, <<>>, FALSE)

\* s.split(/\s+/)
splitOnWhiteSpace(s) == splitFrom(s, 1, <<>>, <<>>, TRUE)

\* search() of fastFindByClass over nodes[i..].
RECURSIVE searchByClass(_, _, _, _, _)
searchByClass(t, nodes, i, st, className) ==
    IF i > Len(nodes) THEN st
    ELSE LET node == nodes[i] IN
         IF isTag(t[node])
         THEN LET classes == IF "class" \in DOMAIN t[node].attribs
                             THEN splitOnWhiteSpace(t[node].attribs["class"])
                             ELSE <<>>
                  st1 == IF className \in Range(classes) /\ node \notin st.seen
                         THEN [results |-> Append(st.results, node),
                               seen |-> st.seen \cup {node}]
                         ELSE st
                  sub == searchByClass(t, t[node].children, 1, st1, className)
              IN searchByClass(t, nodes, i + 1, sub, className)
         ELSE searchByClass(t, nodes, i + 1, st, className)

fastFindByClass(t, rt, className) ==
    searchByClass(t, rt, 1, [results |-> <<>>, seen |-> {}], className).results

UpperCase ==
    <<"A", "B", "C", "D", "E", "F", "G", "H", "I", "J", "K", "L", "M",
      "N", "O", "P", "Q", "R", "S", "T", "U", "V", "W", "X", "Y", "Z">>
LowerCase ==
    <<"a", "b", "c", "d", "e", "f", "g", "h", "i", "j", "k", "l", "m",
      "n", "o", "p", "q", "r", "s", "t", "u", "v", "w", "x", "y", "z">>

toLowerCaseChar(c) ==
    IF \E k \in DOMAIN UpperCase : UpperCase[k] = c
    THEN LowerCase[CHOOSE k \in DOMAIN UpperCase : UpperCase[k] = c]
    ELSE c

\* A plausible slip: the names are compared as written.
toLowerCaseOmitted(s) == s

\* String.prototype.toLowerCase
toLowerCase(s) == [k \in DOMAIN s |-> toLowerCaseChar(s[k])]

\* search() of fastFindByTag over nodes[i..].
RECURSIVE searchByTag(_, _, _, _, _)
searchByTag(t, nodes, i, st, lowerTag) ==
    IF i > Len(nodes) THEN st
    ELSE LET node == nodes[i] IN
         IF isTag(t[node])
         THEN LET st1 == IF toLowerCase(t[node].name.s) = lowerTag /\ node \notin st.seen
                         THEN [results |-> Append(st.results, node),
                               seen |-> st.seen \cup {node}]
                         ELSE st
                  sub == searchByTag(t, t[node].children, 1, st1, lowerTag)
              IN searchByTag(t, nodes, i + 1, sub, lowerTag)
         ELSE searchByTag(t, nodes, i + 1, st, lowerTag)

fastFindByTag(t, rt, tagName) ==
    searchByTag(t, rt, 1, [results |-> <<>>, seen |-> {}], toLowerCase(tagName)).results

FastFindById(id) ==
    /\ last' = [op |-> "fastFindById", arg |-> id, ret |-> fastFindById(tree, root, id)]
    /\ UNCHANGED <<tree, root, attributeCache, textCache, pool, maxSize, invalidated, textSnap, selectorCache, traversalCache>>

FastFindByClass(className) ==
    /\ last' = [op |-> "fastFindByClass", arg |-> className,
                ret |-> fastFindByClass(tree, root, className)]
    /\ UNCHANGED <<tree, root, attributeCache, textCache, pool, maxSize, invalidated, textSnap, selectorCache, traversalCache>>

FastFindByTag(tagName) ==
    /\ last' = [op |-> "fastFindByTag", arg |-> tagName,
                ret |-> fastFindByTag(tree, root, tagName)]
    /\ UNCHANGED <<tree, root, attributeCache, textCache, pool, maxSize, invalidated, textSnap, selectorCache, traversalCache>>

\* Nodes and targets of the search by id: elements without id, with the id "x",
\* "y" or "", a tag-type <style>, a text node and a CDATA section.
IdKinds ==
    {Tag(S_div, NoAttribs), Tag(S_div, Attr("id", <<"x">>)), Tag(S_div, Attr("id", <<"y">>)),
     Tag(S_div, Attr("id", <<>>)), StyleTag(<<"s", "t", "y", "l", "e">>, Attr("id", <<"x">>)),
     TextNode, CDataNode}
IdTargets == {<<"x">>, <<>>}

\* Nodes and targets of the search by class.
ClassKinds ==
    {Tag(S_div, NoAttribs), Tag(S_div, Attr("class", <<>>)),
     Tag(S_div, Attr("class", <<"c">>)), Tag(S_div, Attr("class", <<"c", "d">>)),
     Tag(S_div, Attr("class", <<"d", " ", "\t", "c">>)),
     TextNode, CDataNode}
ClassTargets == {<<"c">>, <<>>}

\* Nodes and targets of the search by tag name.
TagKinds ==
    {Tag(<<"a">>, NoAttribs), Tag(<<"A">>, NoAttribs), Tag(<<"b">>, NoAttribs),
     Tag(<<"a", "B">>, NoAttribs), TextNode, CDataNode}
TagTargets == {<<"a">>, <<"A">>, <<"A", "b">>}

Parents == {0} \cup DOMAIN tree

NextFindId ==
    \/ \E p \in Parents, k \in IdKinds : CreateNode(p, k)
    \/ \E id \in IdTargets : FastFindById(id)

NextFindClass ==
    \/ \E p \in Parents, k \in ClassKinds : CreateNode(p, k)
    \/ \E c \in ClassTargets : FastFindByClass(c)

\* Nodes of the searches for elements with, without and with an empty id or
\* class attribute.
AbsentKinds ==
    {Tag(S_div, NoAttribs), Tag(S_div, Attr("id", <<>>)), Tag(S_div, Attr("id", <<"x">>)),
     Tag(S_div, Attr("class", <<>>)), Tag(S_div, Attr("class", <<"c">>)), TextNode}

NextFindAbsent ==
    \/ \E p \in Parents, k \in AbsentKinds : CreateNode(p, k)
    \/ \E id \in IdTargets : FastFindById(id)
    \/ \E c \in ClassTargets : FastFindByClass(c)

NextFindTag ==
    \/ \E p \in Parents, k \in TagKinds : CreateNode(p, k)
    \/ \E g \in TagTargets : FastFindByTag(g)

----------------------------------------------------------------------------
(* Text cache *)

\* Children scanned by hashChildren at most.
HashScanLimit == 10
\* The multiplier of the running hash.
HashMultiplier == 31

\* String.prototype.charCodeAt for the characters tag names are written in.
charCode(c) ==
    IF \E k \in DOMAIN LowerCase : LowerCase[k] = c
        THEN 96 + (CHOOSE k \in DOMAIN LowerCase : LowerCase[k] = c)
    ELSE IF \E k \in DOMAIN UpperCase : UpperCase[k] = c
        THEN 64 + (CHOOSE k \in DOMAIN UpperCase : UpperCase[k] = c)
    ELSE IF c = "-" THEN 45
    ELSE 95

\* (hash * HashMultiplier + code) | 0 for a 32-bit hash and 0 <= code < 65536:
\* the sum wrapped to a signed 32-bit integer, computed on 16-bit halves.
mulAddInt32(hash, code) ==
    LET lo == hash % 65536
        hi == (hash \div 65536) % 65536
        loSum == (lo * HashMultiplier) + code
        hiSum == ((hi * HashMultiplier) + (loSum \div 65536)) % 65536
    IN IF hiSum >= 32768
       THEN ((hiSum - 65536) * 65536) + (loSum % 65536)
       ELSE (hiSum * 65536) + (loSum % 65536)

\* One round of the loop: (hash * 31 + child.name?.charCodeAt(0) || 0) | 0.
\* `||` binds looser than `+`: without a name, or with the empty name, the sum
\* is NaN and the whole round yields 0.
hashStep(hash, child) ==
    IF child.name = Undefined \/ child.name.s = <<>> THEN 0
    ELSE mulAddInt32(hash, charCode(child.name.s[1]))

Min(a, b) == IF a < b THEN a ELSE b

\* The loop of hashChildren from its 1-based round i on.
RECURSIVE hashLoop(_, _, _, _)
hashLoop(t, children, i, hash) ==
    IF i > Min(Len(children), HashScanLimit) THEN hash
    ELSE hashLoop(t, children, i + 1, hashStep(hash, t[children[i]]))

\* A plausible slip: the loop runs over all children, not the first 10.
RECURSIVE hashLoopUnbounded(_, _, _, _)
hashLoopUnbounded(t, children, i, hash) ==
    IF i > Len(children) THEN hash
    ELSE hashLoopUnbounded(t, children, i + 1, hashStep(hash, t[children[i]]))

hashChildrenUnbounded(t, children) ==
    IF Len(children) = 0 THEN 0 ELSE hashLoopUnbounded(t, children, 1, Len(children))

hashChildren(t, children) ==
    IF Len(children) = 0 THEN 0 ELSE hashLoop(t, children, 1, Len(children))

\* A plausible slip: the stored text is returned without the fingerprint test.
getCachedTextUnchecked(tc, t, node) ==
    IF node \notin DOMAIN tc THEN [cache |-> tc, ret |-> Undefined]
    ELSE [cache |-> tc, ret |-> Str(tc[node].text)]

\* A plausible slip: on a fingerprint mismatch the entry is left in the cache.
getCachedTextKeepsEntry(tc, t, node) ==
    IF node \notin DOMAIN tc THEN [cache |-> tc, ret |-> Undefined]
    ELSE LET currentHash == hashChildren(t, t[node].children) IN
         IF tc[node].childrenHash # currentHash
         THEN [cache |-> tc, ret |-> Undefined]
         ELSE [cache |-> tc, ret |-> Str(tc[node].text)]

getCachedText(tc, t, node) ==
    IF node \notin DOMAIN tc THEN [cache |-> tc, ret |-> Undefined]
    ELSE LET currentHash == hashChildren(t, t[node].children) IN
         IF tc[node].childrenHash # currentHash
         THEN [cache |-> MapDelete(tc, node), ret |-> Undefined]
         ELSE [cache |-> tc, ret |-> Str(tc[node].text)]

\* A plausible slip: the fingerprint of the children is not taken.
setCachedTextNoFingerprint(tc, t, node, text) ==
    MapSet(tc, node, [text |-> text, childrenHash |-> 0])

setCachedText(tc, t, node, text) ==
    MapSet(tc, node, [text |-> text, childrenHash |-> hashChildren(t, t[node].children)])

Texts == {<<>>, <<"X">>}

GetCachedText(n) ==
    /\ textCache' = getCachedText(textCache, tree, n).cache
    /\ last' = [op |-> "getCachedText", node |-> n,
                ret |-> getCachedText(textCache, tree, n).ret]
    /\ textSnap' = IF n \in DOMAIN textCache /\ n \in DOMAIN textSnap
                      /\ getCachedText(textCache, tree, n).ret = Undefined
                   THEN [textSnap EXCEPT ![n].missed = TRUE] ELSE textSnap
    /\ UNCHANGED <<tree, root, attributeCache, pool, maxSize, invalidated, selectorCache, traversalCache>>

SetCachedText(n, text) ==
    /\ textCache' = setCachedText(textCache, tree, n, text)
    /\ textSnap' = MapSet(textSnap, n,
                          [text |-> text, children |-> tree[n].children, intact |-> TRUE,
                           missed |-> FALSE])
    /\ last' = [op |-> "setCachedText", node |-> n, arg |-> text]
    /\ UNCHANGED <<tree, root, attributeCache, pool, maxSize, invalidated, selectorCache, traversalCache>>

\* The nodes whose text is cached in the text slices: those at top level.
TextOwners == Range(root)
Detached == {c \in DOMAIN tree : ~Attached(c)}

NextText ==
    \/ \E n \in TextOwners, c \in Detached : AppendChild(n, c)
    \/ \E n \in TextOwners, i \in 1..MaxChildren + 1 : RemoveChild(n, i)
    \/ \E n \in TextOwners, i \in 1..MaxChildren + 1, c \in Detached : ReplaceChild(n, i, c)
    \/ \E n \in TextOwners, text \in Texts : SetCachedText(n, text)
    \/ \E n \in TextOwners : GetCachedText(n)

\* Changes of the children at and past the scan limit of the fingerprint.
NextTextTail ==
    \/ \E n \in TextOwners, c \in Detached : AppendChild(n, c)
    \/ \E n \in TextOwners, i \in HashScanLimit..HashScanLimit + MaxTail : RemoveChild(n, i)
    \/ \E n \in TextOwners, i \in HashScanLimit..HashScanLimit + MaxTail, c \in Detached :
          ReplaceChild(n, i, c)
    \/ \E n \in TextOwners, text \in Texts : SetCachedText(n, text)
    \/ \E n \in TextOwners : GetCachedText(n)

----------------------------------------------------------------------------
(* Traversal cache *)

\* The JavaScript value null, distinct from undefined.
Null == [t |-> "null"]
\* An array of elements (Element[]), by identity.
Arr(a) == [t |-> "array", a |-> a]

\* The slots of a traversal entry; an entry is the function from the slots
\* that were assigned to their values, {} being the empty function.
Slots == {"parent", "nextSibling", "prevSibling", "children"}

\* traversalCache.get(node)?.slot
getCachedSlot(tc, node, slot) ==
    IF node \notin DOMAIN tc THEN Undefined ELSE MapGet(tc[node], slot)

\* let cache = traversalCache.get(node);
\* if (!cache) { cache = {}; traversalCache.set(node, cache); }
\* cache.slot = value;
setCachedSlot(tc, node, slot, value) ==
    LET cache == IF node \notin DOMAIN tc THEN EmptyMap ELSE tc[node]
    IN MapSet(tc, node, MapSet(cache, slot, value))

getCachedParentNullAsAbsent(tc, node) ==
    LET v == getCachedSlot(tc, node, "parent")
    IN IF v = Null THEN Undefined ELSE v

getCachedParent(tc, node) == getCachedSlot(tc, node, "parent")

setCachedParentFreshEntry(tc, node, parent) ==
    MapSet(tc, node, MapSet(EmptyMap, "parent", parent))

setCachedParent(tc, node, parent) == setCachedSlot(tc, node, "parent", parent)

getCachedNextSibling(tc, node) == getCachedSlot(tc, node, "nextSibling")

setCachedNextSibling(tc, node, sibling) == setCachedSlot(tc, node, "nextSibling", sibling)

getCachedPrevSibling(tc, node) == getCachedSlot(tc, node, "prevSibling")

setCachedPrevSibling(tc, node, sibling) == setCachedSlot(tc, node, "prevSibling", sibling)

getCachedChildren(tc, node) == getCachedSlot(tc, node, "children")

setCachedChildren(tc, node, children) == setCachedSlot(tc, node, "children", children)

\* The slot a traversal operation reads or writes.
SlotOf(op) ==
    CASE op \in {"getCachedParent", "setCachedParent"} -> "parent"
      [] op \in {"getCachedNextSibling", "setCachedNextSibling"} -> "nextSibling"
      [] op \in {"getCachedPrevSibling", "setCachedPrevSibling"} -> "prevSibling"
      [] op \in {"getCachedChildren", "setCachedChildren"} -> "children"

TraversalSetters ==
    {"setCachedParent", "setCachedNextSibling", "setCachedPrevSibling", "setCachedChildren"}

\* Element | null arguments of the three single-element setters.
ElementOrNull == {Null} \cup {Obj(e) : e \in Elements}
\* Element[] arguments of setCachedChildren: no element, or each single one.
ElementArrays == {Arr(<<>>)} \cup {Arr(<<e>>) : e \in Elements}

TraversalUnchanged ==
    UNCHANGED <<tree, root, attributeCache, textCache, pool, maxSize, invalidated,
                textSnap, selectorCache>>

GetCachedParent(n) ==
    /\ last' = [op |-> "getCachedParent", node |-> n, ret |-> getCachedParent(traversalCache, n)]
    /\ UNCHANGED traversalCache
    /\ TraversalUnchanged

SetCachedParent(n, parent) ==
    /\ traversalCache' = setCachedParent(traversalCache, n, parent)
    /\ last' = [op |-> "setCachedParent", node |-> n, arg |-> parent]
    /\ TraversalUnchanged

GetCachedNextSibling(n) ==
    /\ last' = [op |-> "getCachedNextSibling", node |-> n,
                ret |-> getCachedNextSibling(traversalCache, n)]
    /\ UNCHANGED traversalCache
    /\ TraversalUnchanged

SetCachedNextSibling(n, sibling) ==
    /\ traversalCache' = setCachedNextSibling(traversalCache, n, sibling)
    /\ last' = [op |-> "setCachedNextSibling", node |-> n, arg |-> sibling]
    /\ TraversalUnchanged

GetCachedPrevSibling(n) ==
    /\ last' = [op |-> "getCachedPrevSibling", node |-> n,
                ret |-> getCachedPrevSibling(traversalCache, n)]
    /\ UNCHANGED traversalCache
    /\ TraversalUnchanged

SetCachedPrevSibling(n, sibling) ==
    /\ traversalCache' = setCachedPrevSibling(traversalCache, n, sibling)
    /\ last' = [op |-> "setCachedPrevSibling", node |-> n, arg |-> sibling]
    /\ TraversalUnchanged

GetCachedChildren(n) ==
    /\ last' = [op |-> "getCachedChildren", node |-> n,
                ret |-> getCachedChildren(traversalCache, n)]
    /\ UNCHANGED traversalCache
    /\ TraversalUnchanged

SetCachedChildren(n, children) ==
    /\ traversalCache' = setCachedChildren(traversalCache, n, children)
    /\ last' = [op |-> "setCachedChildren", node |-> n, arg |-> children]
    /\ TraversalUnchanged

NextTraversal ==
    \/ \E n \in DOMAIN tree : GetCachedParent(n)
    \/ \E n \in DOMAIN tree, v \in ElementOrNull : SetCachedParent(n, v)
    \/ \E n \in DOMAIN tree : GetCachedNextSibling(n)
    \/ \E n \in DOMAIN tree, v \in ElementOrNull : SetCachedNextSibling(n, v)
    \/ \E n \in DOMAIN tree : GetCachedPrevSibling(n)
    \/ \E n \in DOMAIN tree, v \in ElementOrNull : SetCachedPrevSibling(n, v)
    \/ \E n \in DOMAIN tree : GetCachedChildren(n)
    \/ \E n \in DOMAIN tree, v \in ElementArrays : SetCachedChildren(n, v)

----------------------------------------------------------------------------
(* Selector cache *)

\* Selector strings used as cache keys.
SelectorKeys == {<<"d">>, <<"#", "d">>}

\* const contextCache = selectorCache.get(context);
\* return contextCache?.get(selector);
getCachedSelector(sc, context, selector) ==
    IF context \notin DOMAIN sc THEN Undefined ELSE MapGet(sc[context], selector)

setCachedSelectorFreshMap(sc, context, selector, results) ==
    MapSet(sc, context, MapSet(EmptyMap, selector, results))

setCachedSelectorByStructure(sc, context, selector, results) ==
    LET alike == {c \in DOMAIN tree : tree[c] = tree[context]}
    IN [c \in DOMAIN sc \cup alike |->
          IF c \in alike
          THEN MapSet(IF c \in DOMAIN sc THEN sc[c] ELSE EmptyMap, selector, results)
          ELSE sc[c]]

\* let contextCache = selectorCache.get(context);
\* if (!contextCache) { contextCache = new Map(); selectorCache.set(context, contextCache); }
\* contextCache.set(selector, results);
setCachedSelector(sc, context, selector, results) ==
    LET contextCache == IF context \notin DOMAIN sc THEN EmptyMap ELSE sc[context]
    IN MapSet(sc, context, MapSet(contextCache, selector, results))

clearSelectorCacheEmptied(sc) == EmptyMap

\* The body of clearSelectorCache holds two comments and no statement.
clearSelectorCache(sc) == sc

SelectorUnchanged ==
    UNCHANGED <<tree, root, attributeCache, textCache, pool, maxSize, invalidated,
                textSnap, traversalCache>>

\* The context objects are the nodes of the document.
GetCachedSelector(c, s) ==
    /\ last' = [op |-> "getCachedSelector", node |-> c, key |-> s,
                ret |-> getCachedSelector(selectorCache, c, s)]
    /\ UNCHANGED selectorCache
    /\ SelectorUnchanged

SetCachedSelector(c, s, results) ==
    /\ selectorCache' = setCachedSelector(selectorCache, c, s, results)
    /\ last' = [op |-> "setCachedSelector", node |-> c, key |-> s, arg |-> results]
    /\ SelectorUnchanged

ClearSelectorCache ==
    /\ selectorCache' = clearSelectorCache(selectorCache)
    /\ last' = [op |-> "clearSelectorCache"]
    /\ SelectorUnchanged

NextSelectorCache ==
    \/ \E c \in DOMAIN tree, s \in SelectorKeys : GetCachedSelector(c, s)
    \/ \E c \in DOMAIN tree, s \in SelectorKeys, r \in ElementArrays : SetCachedSelector(c, s, r)
    \/ ClearSelectorCache

\* Calls on all four caches, with one key, one value besides the empty one and
\* one text each.
NextCaches ==
    \/ \E c \in DOMAIN tree : GetCachedSelector(c, <<"d">>)
    \/ \E c \in DOMAIN tree, r \in {Arr(<<>>), Arr(<<1>>)} : SetCachedSelector(c, <<"d">>, r)
    \/ ClearSelectorCache
    \/ \E n \in DOMAIN tree : GetCachedParent(n)
    \/ \E n \in DOMAIN tree, v \in {Null, Obj(1)} : SetCachedParent(n, v)
    \/ \E e \in Elements : GetCachedAttribute(e, "id")
    \/ \E e \in Elements : SetCachedAttribute(e, "id", Str(<<"x">>))
    \/ \E e \in Elements : InvalidateAttributeCache(e)
    \/ \E n \in DOMAIN tree : GetCachedText(n)
    \/ \E n \in DOMAIN tree : SetCachedText(n, <<"X">>)

----------------------------------------------------------------------------
(* Specifications *)

\* After module load and createWrapperPool(factory, m): every cache is empty,
\* the pool holds nothing, the document is empty.
Init ==
    /\ tree = EmptyTree
    /\ root = <<>>
    /\ attributeCache = EmptyMap
    /\ textCache = EmptyMap
    /\ pool = <<>>
    /\ maxSize \in 0..MaxPoolSize
    /\ last = [op |-> "init"]
    /\ invalidated = {}
    /\ textSnap = EmptyMap
    /\ selectorCache = EmptyMap
    /\ traversalCache = EmptyMap

\* Every operation of the module, on a document the environment builds and
\* changes.
Next ==
    \/ \E p \in Parents, k \in IdKinds \cup ClassKinds \cup TagKinds : CreateNode(p, k)
    \/ \E n \in DOMAIN tree, c \in Detached : AppendChild(n, c)
    \/ \E n \in DOMAIN tree, i \in 1..MaxNodes : RemoveChild(n, i)
    \/ \E n \in DOMAIN tree, i \in 1..MaxNodes, c \in Detached : ReplaceChild(n, i, c)
    \/ NextAttr
    \/ \E n \in DOMAIN tree, text \in Texts : SetCachedText(n, text)
    \/ \E n \in DOMAIN tree : GetCachedText(n)
    \/ NextSelector
    \/ \E id \in IdTargets : FastFindById(id)
    \/ \E c \in ClassTargets : FastFindByClass(c)
    \/ \E g \in TagTargets : FastFindByTag(g)
    \/ NextPool
    \/ NextTraversal
    \/ NextSelectorCache

Spec == Init /\ [][Next]_vars

\* The specifications below are slices of Spec: each starts from a state Spec
\* reaches and takes the steps of one component, so that the component's
\* claims are checked over all of its inputs.

\* The attribute cache over a document of NumElems elements.
InitAttr ==
    /\ tree = Population([i \in 1..NumElems |-> Tag(S_div, NoAttribs)])
    /\ root = [i \in 1..NumElems |-> i]
    /\ attributeCache = EmptyMap
    /\ textCache = EmptyMap
    /\ pool = <<>>
    /\ maxSize = 0
    /\ last = [op |-> "init"]
    /\ invalidated = {}
    /\ textSnap = EmptyMap
    /\ selectorCache = EmptyMap
    /\ traversalCache = EmptyMap

SpecAttr == InitAttr /\ [][NextAttr]_vars

\* The pool alone, for every maximum size up to MaxPoolSize.
SpecPool == Init /\ [][NextPool]_vars

\* The classifier, applied to every selector string up to MaxSelLen characters.
\* The state after module load, with a pool that retains nothing.
InitEmpty == Init /\ maxSize = 0

\* The classifier reads and writes no state, so one call per behaviour covers it.
ParseOnce == last.op = "init" /\ NextSelector

SpecSelector == InitEmpty /\ [][ParseOnce]_vars

\* The searches, each over every document of up to MaxNodes nodes.
SpecFindId == InitEmpty /\ [][NextFindId]_vars
SpecFindClass == InitEmpty /\ [][NextFindClass]_vars
SpecFindTag == InitEmpty /\ [][NextFindTag]_vars
\* The searches by id and by class over elements lacking the attribute.
SpecFindAbsent == InitEmpty /\ [][NextFindAbsent]_vars

\* A document of one element and MaxChildren detached nodes, the k-th of the
\* kind kinds[k] (taken round robin).
InitText(kinds) ==
    /\ tree = Population([i \in 1..MaxChildren + 1 |->
                            IF i = 1 THEN Tag(S_div, NoAttribs)
                            ELSE kinds[((i - 2) % Len(kinds)) + 1]])
    /\ root = <<1>>
    /\ attributeCache = EmptyMap
    /\ textCache = EmptyMap
    /\ pool = <<>>
    /\ maxSize = 0
    /\ last = [op |-> "init"]
    /\ invalidated = {}
    /\ textSnap = EmptyMap
    /\ selectorCache = EmptyMap
    /\ traversalCache = EmptyMap

\* The text cache of an element whose children are elements and text nodes.
SpecText ==
    InitText(<<Tag(S_div, NoAttribs), TextNode, Tag(S_dl, NoAttribs), Tag(S_span, NoAttribs)>>)
        /\ [][NextText]_vars

\* The text cache of an element whose children are all elements.
SpecTextElems ==
    InitText(<<Tag(S_div, NoAttribs), Tag(S_dl, NoAttribs), Tag(S_span, NoAttribs)>>)
        /\ [][NextText]_vars

\* A document whose top-level nodes are the given ones, right after module load.
InitDocument(nodes) ==
    /\ tree = Population(nodes)
    /\ root = [i \in 1..Len(nodes) |-> i]
    /\ attributeCache = EmptyMap
    /\ textCache = EmptyMap
    /\ pool = <<>>
    /\ maxSize = 0
    /\ last = [op |-> "init"]
    /\ invalidated = {}
    /\ textSnap = EmptyMap
    /\ selectorCache = EmptyMap
    /\ traversalCache = EmptyMap

\* The traversal cache of an element and a text node.
InitTraversal == InitDocument(<<Tag(S_div, NoAttribs), TextNode>>)

SpecTraversal == InitTraversal /\ [][NextTraversal]_vars


\* The selector cache with two elements as contexts.
InitTwoElements == InitDocument(<<Tag(S_div, NoAttribs), Tag(S_div, NoAttribs)>>)

SpecSelectorCache == InitTwoElements /\ [][NextSelectorCache]_vars

\* The four caches side by side, over two structurally equal elements.
SpecCaches == InitTwoElements /\ [][NextCaches]_vars

\* An element with HashScanLimit element children, and MaxTail detached elements.
InitTextTail ==
    /\ tree = Population([i \in 1..HashScanLimit + MaxTail + 1 |->
                            IF i = 1
                            THEN [Tag(S_div, NoAttribs) EXCEPT
                                    !.children = [k \in 1..HashScanLimit |-> k + 1]]
                            ELSE <<Tag(S_div, NoAttribs), Tag(S_span, NoAttribs),
                                   Tag(S_dl, NoAttribs)>>[(i % 3) + 1]])
    /\ root = <<1>>
    /\ attributeCache = EmptyMap
    /\ textCache = EmptyMap
    /\ pool = <<>>
    /\ maxSize = 0
    /\ last = [op |-> "init"]
    /\ invalidated = {}
    /\ textSnap = EmptyMap
    /\ selectorCache = EmptyMap
    /\ traversalCache = EmptyMap

\* The text cache of an element with more children than the fingerprint scans.
SpecTextTail == InitTextTail /\ [][NextTextTail]_vars

\* The text caches of two elements that take their children from two
\* detached elements.
InitTextTwo ==
    /\ tree = Population(<<Tag(S_div, NoAttribs), Tag(S_div, NoAttribs),
                           Tag(S_span, NoAttribs), Tag(S_dl, NoAttribs)>>)
    /\ root = <<1, 2>>
    /\ attributeCache = EmptyMap
    /\ textCache = EmptyMap
    /\ pool = <<>>
    /\ maxSize = 0
    /\ last = [op |-> "init"]
    /\ invalidated = {}
    /\ textSnap = EmptyMap
    /\ selectorCache = EmptyMap
    /\ traversalCache = EmptyMap

SpecTextTwo == InitTextTwo /\ [][NextText]_vars

----------------------------------------------------------------------------
(* Claims about the attribute cache, checked under SpecAttr *)

\* C1: in the state right after setCachedAttribute(n, a, v), whatever ran before,
\* getCachedAttribute(n, a) is exactly v and hasAttributeCache(n, a) is true,
\* also when v is undefined.
C1_SetThenGet ==
    last.op = "setCachedAttribute" =>
        /\ getCachedAttribute(attributeCache, last.node, last.key) = last.arg
        /\ hasAttributeCache(attributeCache, last.node, last.key) = TRUE

\* undefined was just cached for a name on an element that earlier held a string
\* there and was invalidated in between.
C1_Witness ==
    /\ last.op = "setCachedAttribute"
    /\ last.arg = Undefined
    /\ \E p \in invalidated : p[1] = last.node /\ p[2] # last.key

\* C2: every name that was cached on n when invalidateAttributeCache(n) ran is
\* reported uncached by hasAttributeCache until setCachedAttribute stores that
\* name on n again.
C2_InvalidatedStaysUncached ==
    \A p \in invalidated : hasAttributeCache(attributeCache, p[1], p[2]) = FALSE

\* After the invalidation another name was cached on the same element; the
\* invalidated name is still uncached.
C2_Witness ==
    \E p \in invalidated :
        /\ last.op = "setCachedAttribute"
        /\ last.node = p[1]
        /\ last.key # p[2]

----------------------------------------------------------------------------
(* Claims about the wrapper pool, checked under SpecPool *)

\* C7: the pool never retains more than maxSize instances, and a release on a
\* pool that already holds maxSize instances leaves the pool as it was.
C7_PoolBounded ==
    /\ Len(pool) <= maxSize
    /\ (last.op = "release" /\ Len(last.before) = maxSize) => pool = last.before

\* maxSize = 2: a release found two instances retained and was dropped.
C7_Witness ==
    /\ maxSize = 2
    /\ last.op = "release"
    /\ Len(last.before) = 2
    /\ Len(pool) = 2
    /\ last.arg \notin Range(pool)

\* C8: acquire invokes the factory exactly when the pool is empty; on a
\* non-empty pool it returns the instance on top and removes it.
C8_FactoryOnlyWhenEmpty ==
    last.op = "acquire" =>
        /\ last.factory <=> (last.before = <<>>)
        /\ last.before # <<>> =>
              /\ last.ret = last.before[Len(last.before)]
              /\ pool = SubSeq(last.before, 1, Len(last.before) - 1)

----------------------------------------------------------------------------
(* Claims about the classifier, checked under SpecSelector *)

\* Dropping the first i and the last j characters of s removes exactly its
\* leading and trailing white space.
IsTrimCut(s, i, j) ==
    /\ i + j <= Len(s)
    /\ \A k \in 1..i : IsWhiteSpace(s[k])
    /\ \A k \in (Len(s) - j + 1)..Len(s) : IsWhiteSpace(s[k])
    /\ i + j < Len(s) => ~IsWhiteSpace(s[i + 1]) /\ ~IsWhiteSpace(s[Len(s) - j])

\* One or more word or hyphen characters and nothing else.
IsWordHyphenRun(t) == t # <<>> /\ \A k \in 1..Len(t) : t[k] \in WordChars \cup {"-"}

\* What the claim expects for the trimmed selector t.
ExpectedClass(t) ==
    IF t # <<>> /\ t[1] = "#" /\ IsWordHyphenRun(Tail(t))
        THEN [type |-> "id", value |-> Tail(t)]
    ELSE IF t # <<>> /\ t[1] = "." /\ IsWordHyphenRun(Tail(t))
        THEN [type |-> "class", value |-> Tail(t)]
    ELSE IF IsWordHyphenRun(t)
        THEN [type |-> "tag", value |-> t]
    ELSE [type |-> "complex"]

\* C3: parseSimpleSelector answers for every string, and its answer is id, class
\* or tag with the stated value when the trimmed selector has the stated shape,
\* and complex, without a value, for every other string.
C3_Classification ==
    last.op = "parseSimpleSelector" =>
        /\ last.ret.type \in {"id", "class", "tag", "complex"}
        /\ \A i, j \in 0..Len(last.arg) :
              IsTrimCut(last.arg, i, j) =>
                  last.ret = ExpectedClass(SubSeq(last.arg, i + 1, Len(last.arg) - j))
        /\ \E i, j \in 0..Len(last.arg) : IsTrimCut(last.arg, i, j)

\* A selector with white space around "#d" was classified as the id "d".
C3_Witness ==
    /\ last.op = "parseSimpleSelector"
    /\ last.arg = <<" ", "#", "d">>
    /\ last.ret = [type |-> "id", value |-> <<"d">>]

----------------------------------------------------------------------------
(* Claims about the tree searches, checked under SpecFindId, SpecFindClass *)
(* and SpecFindTag.  Document order is defined from the positions of the   *)
(* nodes in the tree, independently of the walk.                           *)

\* The node whose child sequence holds n; 0 for a top-level or detached node.
ParentOf(n) ==
    IF \E q \in DOMAIN tree : n \in Range(tree[q].children)
    THEN CHOOSE q \in DOMAIN tree : n \in Range(tree[q].children)
    ELSE 0

PositionIn(seq, n) == CHOOSE i \in DOMAIN seq : seq[i] = n

\* The child positions leading from the top level down to n.
RECURSIVE PathOf(_)
PathOf(n) ==
    IF ParentOf(n) = 0 THEN <<PositionIn(root, n)>>
    ELSE Append(PathOf(ParentOf(n)), PositionIn(tree[ParentOf(n)].children, n))

\* Pre-order: an ancestor comes before its descendants, an earlier sibling's
\* subtree before a later sibling's.
PathBefore(a, b) ==
    \/ Len(a) < Len(b) /\ SubSeq(b, 1, Len(a)) = a
    \/ \E k \in 1..Len(a) :
          /\ k <= Len(b)
          /\ SubSeq(a, 1, k - 1) = SubSeq(b, 1, k - 1)
          /\ a[k] < b[k]

DocBefore(n, m) == PathBefore(PathOf(n), PathOf(m))

\* n is tag-type and so is every node between it and the top level.
RECURSIVE ReachedThroughTags(_)
ReachedThroughTags(n) ==
    /\ tree[n].type \in {"tag", "script", "style"}
    /\ IF ParentOf(n) = 0 THEN n \in Range(root) ELSE ReachedThroughTags(ParentOf(n))

Reached == {n \in DOMAIN tree : ReachedThroughTags(n)}

\* seq lists exactly the nodes of the set M, each once, in document order.
ListsInDocOrder(seq, M) ==
    /\ Range(seq) = M
    /\ Len(seq) = Cardinality(M)
    /\ \A i, j \in DOMAIN seq : i < j => DocBefore(seq[i], seq[j])

IdMatches(id) ==
    {n \in Reached : "id" \in DOMAIN tree[n].attribs /\ tree[n].attribs["id"] = id}

\* C4: fastFindById returns at most one element: the first in document
\* pre-order of the reached elements whose id equals the target, also when
\* several share it, and the empty sequence when there is none.
C4_FirstById ==
    last.op = "fastFindById" =>
        LET M == IdMatches(last.arg) IN
        /\ Len(last.ret) <= 1
        /\ M = {} => last.ret = <<>>
        /\ M # {} => /\ Len(last.ret) = 1
                     /\ last.ret[1] \in M
                     /\ \A m \in M \ {last.ret[1]} : DocBefore(last.ret[1], m)

\* Two elements share the id; the one returned was created after the other
\* and lies deeper in the tree, but comes first in pre-order.
C4_Witness ==
    /\ last.op = "fastFindById"
    /\ Len(last.ret) = 1
    /\ \E m \in IdMatches(last.arg) :
          /\ m < last.ret[1]
          /\ Len(PathOf(last.ret[1])) > Len(PathOf(m))

\* The class attribute s, split on runs of white space, holds the piece c:
\* c stands in s between white space or the ends of s.  The empty piece arises
\* only before leading or after trailing white space, or from the empty string.
HasClassToken(s, c) ==
    IF c = <<>>
    THEN s = <<>> \/ IsWhiteSpace(s[1]) \/ IsWhiteSpace(s[Len(s)])
    ELSE /\ \A k \in DOMAIN c : ~IsWhiteSpace(c[k])
         /\ \E i \in 1..(Len(s) - Len(c) + 1) :
               /\ SubSeq(s, i, i + Len(c) - 1) = c
               /\ i = 1 \/ IsWhiteSpace(s[i - 1])
               /\ i + Len(c) - 1 = Len(s) \/ IsWhiteSpace(s[i + Len(c)])

ClassMatches(c) ==
    {n \in Reached : "class" \in DOMAIN tree[n].attribs
                     /\ HasClassToken(tree[n].attribs["class"], c)}

\* C5: fastFindByClass returns exactly the elements reached through tag-type
\* nodes whose class attribute, split on runs of white space, holds className:
\* each once, in document pre-order; nothing beneath a non-tag node.
C5_AllByClass ==
    last.op = "fastFindByClass" => ListsInDocOrder(last.ret, ClassMatches(last.arg))

\* Two matches are returned, the nested later-created one first; one of them
\* carries the class as the last of several white-space separated pieces.
C5_Witness ==
    /\ last.op = "fastFindByClass"
    /\ last.arg = <<"c">>
    /\ Len(last.ret) = 2
    /\ last.ret[1] > last.ret[2]
    /\ \E k \in DOMAIN last.ret : Len(tree[last.ret[k]].attribs["class"]) > 1

\* The same letter, in either case.
SameLetter(c, d) ==
    c = d \/ \E k \in DOMAIN UpperCase : {c, d} = {UpperCase[k], LowerCase[k]}

EqualIgnoringCase(a, b) ==
    Len(a) = Len(b) /\ \A k \in DOMAIN a : SameLetter(a[k], b[k])

TagMatches(g) == {n \in Reached : EqualIgnoringCase(tree[n].name.s, g)}

\* C6: fastFindByTag returns exactly the reached elements whose tag name equals
\* tagName up to letter case: each once, in document pre-order, all of them.
C6_AllByTag ==
    last.op = "fastFindByTag" => ListsInDocOrder(last.ret, TagMatches(last.arg))

\* Matches that differ in case from the target and from each other are both
\* returned, the nested later-created one first.
C6_Witness ==
    /\ last.op = "fastFindByTag"
    /\ last.arg = <<"A">>
    /\ Len(last.ret) = 2
    /\ last.ret[1] > last.ret[2]
    /\ tree[last.ret[1]].name # tree[last.ret[2]].name

----------------------------------------------------------------------------
(* Claims about the text cache, checked under SpecText and SpecTextElems *)

\* C9: getCachedText(n) returns the text of the last setCachedText(n, t) while
\* n's children have not been changed since, also the empty text; and it
\* returns undefined when the fingerprint of n's children differs from the one
\* taken at that setCachedText.
C9_TextUntilFingerprintChanges ==
    (last.op = "getCachedText" /\ last.node \in DOMAIN textSnap) =>
        LET snap == textSnap[last.node] IN
        /\ snap.intact => last.ret = Str(snap.text)
        /\ hashChildren(tree, snap.children) # hashChildren(tree, tree[last.node].children)
              => last.ret = Undefined

\* The text was stored with two children; a third was appended, the
\* fingerprint changed and getCachedText returned undefined.
C9_Witness ==
    /\ last.op = "getCachedText"
    /\ last.node \in DOMAIN textSnap
    /\ last.ret = Undefined
    /\ Len(textSnap[last.node].children) = 2
    /\ Len(tree[last.node].children) = 3
    /\ SubSeq(tree[last.node].children, 1, 2) = textSnap[last.node].children
    /\ hashChildren(tree, textSnap[last.node].children)
           # hashChildren(tree, tree[last.node].children)

\* C10 as stated: getCachedText(n) returns a text only while n's child sequence
\* is the one present at the setCachedText that stored it.
C10_OnlyIfChildrenUnchanged ==
    (last.op = "getCachedText" /\ last.ret # Undefined) =>
        /\ last.node \in DOMAIN textSnap
        /\ tree[last.node].children = textSnap[last.node].children

\* C10 as amended: getCachedText(n) returns a text only if it is the text last
\* stored for n and the fingerprint of n's current children equals the
\* fingerprint of the children present at that setCachedText.
C10_OnlyIfFingerprintEqual ==
    (last.op = "getCachedText" /\ last.ret # Undefined) =>
        /\ last.node \in DOMAIN textSnap
        /\ last.ret = Str(textSnap[last.node].text)
        /\ hashChildren(tree, tree[last.node].children)
              = hashChildren(tree, textSnap[last.node].children)

\* A child was replaced by another element after the text was stored and
\* getCachedText still returned the stored text.
C10_Witness ==
    /\ last.op = "getCachedText"
    /\ last.ret # Undefined
    /\ last.node \in DOMAIN textSnap
    /\ Len(tree[last.node].children) = Len(textSnap[last.node].children)
    /\ tree[last.node].children # textSnap[last.node].children

----------------------------------------------------------------------------
(* Claims about the traversal cache, checked under SpecTraversal *)

\* What the getter of a slot returns.
ReadSlot(tc, n, s) ==
    CASE s = "parent" -> getCachedParent(tc, n)
      [] s = "nextSibling" -> getCachedNextSibling(tc, n)
      [] s = "prevSibling" -> getCachedPrevSibling(tc, n)
      [] s = "children" -> getCachedChildren(tc, n)

\* C11: a call of one of the four traversal setters on a node leaves what the
\* getters of the node's other three slots return exactly as it was, cached or
\* absent, in every step of every sequence of traversal calls.
C11_OtherSlotsKept ==
    [][last'.op \in TraversalSetters =>
          \A s \in Slots \ {SlotOf(last'.op)} :
              ReadSlot(traversalCache', last'.node, s) = ReadSlot(traversalCache, last'.node, s)]_vars

\* setCachedParent ran on a node whose next sibling is cached as null, whose
\* children are cached and whose previous sibling was never set.
C11_Witness ==
    /\ last.op = "setCachedParent"
    /\ getCachedNextSibling(traversalCache, last.node) = Null
    /\ getCachedChildren(traversalCache, last.node) = Arr(<<1>>)
    /\ getCachedPrevSibling(traversalCache, last.node) = Undefined

\* C12: every slot reads absent (undefined) at the start and keeps reading
\* absent until its own setter runs on its node; right after a setter ran, the
\* slot reads the value set, null included, and null is not absent.
C12_AbsentVersusNull ==
    /\ \A n \in DOMAIN tree, s \in Slots : ReadSlot(traversalCache, n, s) = Undefined
    /\ [][\A n \in DOMAIN tree, s \in Slots :
            IF last'.op \in TraversalSetters /\ last'.node = n /\ SlotOf(last'.op) = s
            THEN ReadSlot(traversalCache', n, s) = last'.arg /\ last'.arg # Undefined
            ELSE ReadSlot(traversalCache, n, s) = Undefined
                    => ReadSlot(traversalCache', n, s) = Undefined]_vars

\* getCachedParent returned null for one node while the parent of another node,
\* never set, reads absent.
C12_Witness ==
    /\ last.op = "getCachedParent"
    /\ last.ret = Null
    /\ \E n \in DOMAIN tree : n # last.node /\ getCachedParent(traversalCache, n) = Undefined
    /\ getCachedPrevSibling(traversalCache, last.node) = Null
    /\ getCachedNextSibling(traversalCache, last.node) = Undefined

----------------------------------------------------------------------------
(* Claims about the selector cache, checked under SpecSelectorCache and *)
(* SpecCaches                                                           *)

\* C13 as stated: once getCachedSelector(c, s) returns a result list, it
\* returns that list in every later state, whatever call follows, a further
\* setCachedSelector(c, s, _) included.
C13_NeverChangesOnceWritten ==
    [][\A c \in DOMAIN tree, s \in SelectorKeys :
          getCachedSelector(selectorCache, c, s) # Undefined
              => getCachedSelector(selectorCache', c, s) = getCachedSelector(selectorCache, c, s)]_vars

\* C13, amended: right after setCachedSelector(c, s, r), getCachedSelector(c, s)
\* returns r, and every call other than a setCachedSelector on that same context
\* and selector leaves what getCachedSelector(c, s) returns unchanged; so r is
\* returned until the next setCachedSelector(c, s, _), which replaces it.
C13_KeptUntilSetAgain ==
    [][\A c \in DOMAIN tree, s \in SelectorKeys :
          IF last'.op = "setCachedSelector" /\ last'.node = c /\ last'.key = s
          THEN getCachedSelector(selectorCache', c, s) = last'.arg
          ELSE getCachedSelector(selectorCache', c, s) = getCachedSelector(selectorCache, c, s)]_vars

\* A list cached for a context and selector was read back while the context
\* holds another list under its other selector and the other context holds a
\* third list under the same selector.
C13_Witness ==
    /\ last.op = "getCachedSelector"
    /\ last.ret = Arr(<<1>>)
    /\ \E s \in SelectorKeys \ {last.key} :
          getCachedSelector(selectorCache, last.node, s) = Arr(<<>>)
    /\ \E c \in DOMAIN tree \ {last.node} :
          getCachedSelector(selectorCache, c, last.key) = Arr(<<2>>)

\* C14: right after clearSelectorCache(), getCachedSelector(c, s) returns
\* absent for every context c and selector s.
C14_ClearEmpties ==
    last.op = "clearSelectorCache" =>
        \A c \in DOMAIN tree, s \in SelectorKeys :
            getCachedSelector(selectorCache, c, s) = Undefined

OwnerWrites ==
    {"setCachedSelector", "setCachedAttribute", "invalidateAttributeCache", "setCachedText"}
        \cup TraversalSetters

\* C16: a set or invalidate call on one owner leaves what every getter of each
\* of the four caches returns for every other owner unchanged, also when the
\* owners are structurally equal; a selector string cached under two contexts
\* is two independent entries.
C16_OtherOwnersKept ==
    [][last'.op \in OwnerWrites =>
          \A o \in DOMAIN tree \ {last'.node} :
              /\ \A s \in SelectorKeys :
                    getCachedSelector(selectorCache', o, s) = getCachedSelector(selectorCache, o, s)
              /\ \A s \in Slots :
                    ReadSlot(traversalCache', o, s) = ReadSlot(traversalCache, o, s)
              /\ \A a \in AttrNames :
                    /\ getCachedAttribute(attributeCache', o, a) = getCachedAttribute(attributeCache, o, a)
                    /\ hasAttributeCache(attributeCache', o, a) = hasAttributeCache(attributeCache, o, a)
              /\ getCachedText(textCache', tree', o).ret = getCachedText(textCache, tree, o).ret]_vars

\* Two structurally equal elements hold different lists under the same
\* selector string, one of them just set, and only one of them has a cached
\* parent, attribute and text.
C16_Witness ==
    /\ tree[1] = tree[2]
    /\ last.op = "setCachedSelector"
    /\ last.node = 2
    /\ getCachedSelector(selectorCache, 1, <<"d">>) = Arr(<<1>>)
    /\ getCachedSelector(selectorCache, 2, <<"d">>) = Arr(<<>>)
    /\ getCachedParent(traversalCache, 1) = Obj(1)
    /\ getCachedParent(traversalCache, 2) = Undefined
    /\ hasAttributeCache(attributeCache, 1, "id")
    /\ ~hasAttributeCache(attributeCache, 2, "id")
    /\ getCachedText(textCache, tree, 1).ret = Str(<<"X">>)
    /\ getCachedText(textCache, tree, 2).ret = Undefined

----------------------------------------------------------------------------
(* Claims about the fingerprint of the children *)

\* The discriminator of a child: the code point of the first character of the
\* tag name of an element, 0 for any other child.
Discriminator(child) ==
    IF isTag(child) /\ child.name # Undefined /\ child.name.s # <<>>
    THEN charCode(child.name.s[1])
    ELSE 0

\* The reference fold from round i on: h = (h * 31 + d) wrapped to signed 32 bits.
RECURSIVE ReferenceFold(_, _, _, _)
ReferenceFold(t, children, i, h) ==
    IF i > Len(children) \/ i > 10 THEN h
    ELSE ReferenceFold(t, children, i + 1, mulAddInt32(h, Discriminator(t[children[i]])))

ReferenceFingerprint(t, children) ==
    IF children = <<>> THEN 0 ELSE ReferenceFold(t, children, 1, Len(children))

\* C17: the fingerprint that setCachedText stores equals the reference fold of
\* the node's children: seeded with their number, each of the first 10 folded
\* in as h = (h * 31 + d) wrapped to signed 32 bits, d being 0 for a child that
\* is no element, so that such a child keeps the hash accumulated so far; 0
\* for no children.
C17_FingerprintIsReferenceFold ==
    last.op = "setCachedText" =>
        textCache[last.node].childrenHash
            = ReferenceFingerprint(tree, tree[last.node].children)

\* The first 10 entries of a child sequence.
FirstTen(children) == SubSeq(children, 1, IF Len(children) < 10 THEN Len(children) ELSE 10)

\* C18 as stated: whenever the children of a node agree in their first 10
\* entries with the children present at its last setCachedText, whatever
\* follows them, the fingerprint is the one stored and getCachedText returns
\* the cached text.
C18_TailNeverCounts ==
    \A n \in DOMAIN textSnap \cap DOMAIN textCache :
        FirstTen(tree[n].children) = FirstTen(textSnap[n].children)
            => /\ hashChildren(tree, tree[n].children) = textCache[n].childrenHash
               /\ getCachedText(textCache, tree, n).ret = Str(textSnap[n].text)

\* C18, amended: whenever the children of a node are as many as at its last
\* setCachedText and agree with them in their first 10 entries, the
\* fingerprint is the one stored and getCachedText returns the cached text.
C18_TailOfSameLength ==
    \A n \in DOMAIN textSnap \cap DOMAIN textCache :
        /\ Len(tree[n].children) = Len(textSnap[n].children)
        /\ FirstTen(tree[n].children) = FirstTen(textSnap[n].children)
        => /\ hashChildren(tree, tree[n].children) = textCache[n].childrenHash
           /\ getCachedText(textCache, tree, n).ret = Str(textSnap[n].text)

\* getCachedText returned the text of a node whose 11th child was replaced,
\* since the text was cached, by an element of another tag name.
C18_Witness ==
    /\ last.op = "getCachedText"
    /\ last.node \in DOMAIN textSnap
    /\ last.ret = Str(textSnap[last.node].text)
    /\ Len(tree[last.node].children) = 11
    /\ Len(textSnap[last.node].children) = 11
    /\ FirstTen(tree[last.node].children) = FirstTen(textSnap[last.node].children)
    /\ tree[tree[last.node].children[11]].name.s[1]
          # tree[textSnap[last.node].children[11]].name.s[1]

----------------------------------------------------------------------------
(* Claim about absent attributes, checked under SpecFindAbsent *)

\* The document t with the attribute `name` set to "" on every element that
\* lacks it.
WithEmptyFor(t, name) ==
    [n \in DOMAIN t |->
        IF isTag(t[n]) /\ name \notin DOMAIN t[n].attribs
        THEN [t[n] EXCEPT !.attribs = [x \in DOMAIN @ \cup {name} |->
                                          IF x = name THEN <<>> ELSE @[x]]]
        ELSE t[n]]

\* The attribute a search reads.
SearchedAttribute == IF last.op = "fastFindById" THEN "id" ELSE "class"

\* What the search that ran last returns on the document t.
SearchOn(t) ==
    IF last.op = "fastFindById" THEN fastFindById(t, root, last.arg)
    ELSE fastFindByClass(t, root, last.arg)

\* C19 as stated: for every target, fastFindById and fastFindByClass return
\* what they would return if every element lacking the attribute had it with
\* the value "".
C19_AbsentAsEmpty ==
    last.op \in {"fastFindById", "fastFindByClass"} =>
        last.ret = SearchOn(WithEmptyFor(tree, SearchedAttribute))

\* C19, amended: for every non-empty target the searches return what they
\* would return if every element lacking the attribute had it with the value
\* ""; for the empty target they return no element that lacks the attribute.
C19_AbsentAsEmptyForNonEmptyTarget ==
    last.op \in {"fastFindById", "fastFindByClass"} =>
        IF last.arg # <<>>
        THEN last.ret = SearchOn(WithEmptyFor(tree, SearchedAttribute))
        ELSE \A e \in Range(last.ret) : SearchedAttribute \in DOMAIN tree[e].attribs

\* The search for the id "x" returned the element with that id, after passing
\* an element without id and one with the id "".
C19_Witness ==
    /\ last.op = "fastFindById"
    /\ last.arg = <<"x">>
    /\ Len(last.ret) = 1
    /\ \E a, b \in Elements :
          /\ "id" \notin DOMAIN tree[a].attribs
          /\ "id" \in DOMAIN tree[b].attribs /\ tree[b].attribs["id"] = <<>>
          /\ last.ret[1] \notin {a, b}

----------------------------------------------------------------------------
(* Claim about discarded text entries, checked under SpecTextTwo *)

\* C20: a getCachedText(n) that follows, with no setCachedText(n, _) in
\* between, a getCachedText(n) that found another fingerprint than the stored
\* one returns absent, also when the children are again those of the last
\* setCachedText; and no getCachedText call changes the text entry of another
\* node.
C20_DiscardedForGood ==
    [][last'.op = "getCachedText" =>
          /\ (last'.node \in DOMAIN textSnap /\ textSnap[last'.node].missed)
                => last'.ret = Undefined
          /\ \A m \in DOMAIN tree \ {last'.node} :
                MapGet(textCache', m) = MapGet(textCache, m)]_vars

\* getCachedText returned absent for a node whose entry an earlier read had
\* discarded and whose children are again those of its last setCachedText,
\* while the other node's text stays cached.
C20_Witness ==
    /\ last.op = "getCachedText"
    /\ last.ret = Undefined
    /\ last.node \in DOMAIN textSnap
    /\ textSnap[last.node].missed
    /\ ~textSnap[last.node].intact
    /\ tree[last.node].children = textSnap[last.node].children
    /\ tree[last.node].children # <<>>
    /\ \E m \in DOMAIN tree \ {last.node} :
          getCachedText(textCache, tree, m).ret = Str(<<"X">>)

====
